---------------------------- MODULE Spec2Model ----------------------------
(***************************************************************************)
(* mini-idb: a promise wrapper over IndexedDB (src/src/db.js, class DB,    *)
(* and src/unnamed/part_000, class IndexDB extends DB).                    *)
(*                                                                         *)
(* The wrapper issues native requests; the host engine runs them later and *)
(* fires onsuccess / onerror.  One action of this model is one piece of    *)
(* wrapper code that runs without suspension: a public method up to the    *)
(* point where it has issued its request, or an event handler together     *)
(* with the promise continuations (microtasks) it releases.                *)
(*                                                                         *)
(* The host engine is modelled after the IndexedDB contract the wrapper    *)
(* relies on: records are kept in ascending key order, add fails on an     *)
(* existing key, put is an upsert, transactions whose scopes overlap run   *)
(* in creation order when one of them is readwrite, and a request error    *)
(* that no handler cancels aborts its transaction (its writes are rolled   *)
(* back and its pending requests fire onerror).  Any native request may    *)
(* fail.                                                                   *)
(***************************************************************************)
EXTENDS Integers, Sequences, FiniteSets, TLC

\* ------------------------------------------------------------- bounds
\* primary-key values are 1..MaxKey
MaxKey == 2
\* setBatch lists have at most MaxBatch items
MaxBatch == 2

\* ------------------------------------------------------------- status codes
openFail == 101
compatibleFail == 102
setSuccess == 103
setFail == 104
setNoCorresponding == 105
updateSuccess == 106
updateFail == 107
removeSuccess == 108
removeFail == 109
removeAllSuccess == 110
removeAllFail == 111
setBatchSuccess == 112
setBatchFail == 113
cursorUpdateSuccess == 114
cursorUpdateFail == 115
noFound == 116
primaryKey == 117
deleteSuccess == 118
deleteFail == 119

\* ------------------------------------------------------------- data
\* the store configuration passed to the constructor (storeList): both
\* stores of the readme example, each keyed by "id"
Stores == {"task", "tag"}
\* the stores the calls are made on
CallStores == {"task"}
\* the caller that awaits each call
Caller == "p"
KeyPath(st) == "id"

Keys == 1..MaxKey
NameVals == {"a"}
\* values the cursor facade is asked to look for
AttrVals == {"a", "b"}
AttrNames == {"name"}

\* a record that has no key field
Keyless == {[name |-> n] : n \in NameVals}
\* records that carry the key field
Keyed == {[id |-> k] : k \in Keys} \cup {[id |-> k, name |-> n] : k \in Keys, n \in NameVals}
Values == Keyed \cup Keyless
\* items of a setBatch list
BatchValues == {[id |-> k] : k \in Keys} \cup Keyless
BatchLists == UNION {[1..n -> BatchValues] : n \in 0..MaxBatch}

\* value.hasOwnProperty(f)
HasOwn(v, f) == f \in DOMAIN v

\* the index list of the readme example: store task has one index, nameIndex,
\* over the key path id; store tag has none
IndexNames == {"nameIndex"}
IndexKeyPath(ix) == "id"
HasIndex(st, ix) == st = "task" /\ ix \in IndexNames

\* the contents of an object store: its records in ascending key order
Sorted(c) == \A i \in 1..Len(c), j \in 1..Len(c) : i < j => c[i].id < c[j].id
Contents == {c \in UNION {[1..n -> Keyed] : n \in 0..MaxKey} : Sorted(c)}

\* ------------------------------------------------------------- JS values and promises
NoVal == [nil |-> TRUE]
Status(c) == [t |-> "status", code |-> c]
Undefined == [t |-> "undefined"]
TypeError == [t |-> "TypeError"]
DataError == [t |-> "DataError"]
RecordVal(r) == [t |-> "record", r |-> r]
ListVal(l) == [t |-> "list", l |-> l]
KeysVal(ks) == [t |-> "keys", ks |-> ks]
CountVal(n) == [t |-> "count", n |-> n]
KeyVal(k) == [t |-> "key", key |-> k]
NotFoundError == [t |-> "NotFoundError"]

Pending == [st |-> "pending"]
Resolved(v) == [st |-> "resolved", v |-> v]
Rejected(v) == [st |-> "rejected", v |-> v]
Thrown(v) == [st |-> "thrown", v |-> v]
Settled(p) == p.st # "pending"

\* resolve(v) of a promise executor: honoured only while the promise is pending
Resolve(p, v) == IF p.st = "pending" THEN Resolved(v) ELSE p
Reject(p, v) == IF p.st = "pending" THEN Rejected(v) ELSE p

\* promisify(req, success, error): the promise of a status-only request
Promisify(ok, success, error) ==
    IF ok THEN Resolved(Status(success)) ELSE Rejected(Status(error))
\* mutant: promisifyRes rejects when the request fails
PromisifyResRejecting(ok, result) ==
    IF ok THEN Resolved(result) ELSE Rejected(Undefined)
\* mutant: promisifyRes with its two handlers exchanged
PromisifyResSwapped(ok, result) ==
    IF ok THEN Resolved(Undefined) ELSE Resolved(result)
\* promisifyRes(req): the promise of a data-fetch request
PromisifyRes(ok, result) ==
    IF ok THEN Resolved(result) ELSE Resolved(Undefined)

\* ------------------------------------------------------------- host engine
\* store.getAllKeys(): the keys in ascending order
KeysOf(c) == [i \in 1..Len(c) |-> c[i].id]
KeySet(c) == {c[i].id : i \in 1..Len(c)}
\* store.get(key): the record, or undefined
Lookup(c, k) ==
    IF k \in KeySet(c)
    THEN RecordVal(c[CHOOSE i \in 1..Len(c) : c[i].id = k])
    ELSE Undefined
Before(c, k) == SelectSeq(c, LAMBDA r : r.id < k)
After(c, k) == SelectSeq(c, LAMBDA r : r.id > k)
\* store.add(value), once the engine has found the key free
EngineAdd(c, v) == Before(c, v.id) \o <<v>> \o After(c, v.id)
\* mutant: put only overwrites
EnginePutExisting(c, v) ==
    [i \in 1..Len(c) |-> IF c[i].id = v.id THEN v ELSE c[i]]
\* mutant: put stores the value beside the record it should replace
EnginePutKeeping(c, v) == Before(c, v.id) \o <<v>> \o SelectSeq(c, LAMBDA r : r.id >= v.id)
\* store.put(value) and cursor.update(value)
EnginePut(c, v) ==
    IF v.id \in KeySet(c)
    THEN [i \in 1..Len(c) |-> IF c[i].id = v.id THEN v ELSE c[i]]
    ELSE EngineAdd(c, v)
\* store.delete(key) and cursor.delete()
EngineDelete(c, k) == SelectSeq(c, LAMBDA r : r.id # k)
\* mutant: clear leaves the records in place
EngineClearNothing(c) == c
\* store.clear()
EngineClear(c) == <<>>

\* the entries of an index: the records that have its key path, in the order
\* of the index key (here the primary key: the order of the store)
IndexEntries(c, ix) == SelectSeq(c, LAMBDA r : HasOwn(r, IndexKeyPath(ix)))
\* the entries of the index under index key x
IndexRange(c, ix, x) == SelectSeq(IndexEntries(c, ix), LAMBDA r : r[IndexKeyPath(ix)] = x)
\* index.get(x): the first record under x, or undefined
IndexGet(c, ix, x) ==
    IF IndexRange(c, ix, x) = <<>> THEN Undefined ELSE RecordVal(IndexRange(c, ix, x)[1])
\* index.count(x)
IndexCount(c, ix, x) == CountVal(Len(IndexRange(c, ix, x)))
\* index.getAll()
IndexGetAll(c, ix) == ListVal(IndexEntries(c, ix))
\* index.getAllKeys(): the primary keys in index order
IndexGetAllKeys(c, ix) == KeysVal(KeysOf(IndexEntries(c, ix)))
\* index.getKey(x): the primary key of the first record under x, or undefined
IndexGetKey(c, ix, x) ==
    IF IndexRange(c, ix, x) = <<>> THEN Undefined ELSE KeyVal(IndexRange(c, ix, x)[1].id)

VARIABLES
    db,         \* [Stores -> Contents]: this._dataBase, the records of each store
    calls,      \* [Slots -> call]: the public calls in progress or last finished
    queue,      \* the engine's transactions awaiting or running, in creation order
    lastWrite,  \* history: the last committed write on each store
    expect,     \* history: the keys inserted and not removed afterwards
    tracked,    \* history: expect[st] follows every write made on st so far
    awaiting,   \* the caller awaits each call before it makes the next one
    conn        \* the DB instance: its constructor arguments, its host, its open()

vars == <<db, calls, queue, lastWrite, expect, tracked, awaiting, conn>>

\* ------------------------------------------------------------- the connection
\* a store declaration {name, key, indexList} of the store list; NoDecl for a
\* store the list does not name
KeyFields == {"id", "uid"}
NoDecl == [key |-> "", indexed |-> FALSE]
StoreDecls == {[key |-> k, indexed |-> b] : k \in KeyFields, b \in BOOLEAN}
StoreLists == [Stores -> StoreDecls \cup {NoDecl}]
\* the store list of the readme example
ReadmeList ==
    [st \in Stores |-> [key |-> KeyPath(st), indexed |-> \E ix \in IndexNames : HasIndex(st, ix)]]
\* resolve(this)
This == [t |-> "this"]
\* the instance and its database:
\*   engine    window.indexedDB || window.webkitIndexedDB is there
\*   fresh     the database does not exist yet: open creates it
\*   list      this._storeList
\*   have      the key path of each object store of the database ("" for none)
\*   ix        the stores that have their index
\*   installs  how often createIndex was invoked for each store
\*   target    this._dataBase: "empty" for {} or "connection"
\*   pc        "new", "request" (open request pending), "upgraded", "done"
\*   fired     history: the event the open request ended with, "success" or "error"
\*   out       the promise of open()
NoStores == [st \in Stores |-> ""]
NoInstalls == [st \in Stores |-> 0]
NewConn(e, f, l, h, x) ==
    [engine |-> e, fresh |-> f, list |-> l, have |-> h, ix |-> x, installs |-> NoInstalls,
     target |-> "empty", pc |-> "new", fired |-> "none", out |-> Pending]
\* the database open() has connected to holds the stores and the index of the
\* readme list, and the instance was constructed with that list
Serving(c) ==
    /\ c.pc = "done" /\ c.out = Resolved(This) /\ c.target = "connection"
    /\ c.list = ReadmeList
    /\ \A st \in Stores : c.have[st] = KeyPath(st)
    /\ c.ix = {st \in Stores : ReadmeList[st].indexed}
\* the instance after open() on the existing database of the readme example
Opened ==
    [NewConn(TRUE, FALSE, ReadmeList, [st \in Stores |-> KeyPath(st)],
             {st \in Stores : ReadmeList[st].indexed})
     EXCEPT !.target = "connection", !.pc = "done", !.fired = "success", !.out = Resolved(This)]

\* callers that may have a call in flight
Slots == {"p", "q"}

\* ------------------------------------------------------------- calls
\* the state of a cursor request and of the promise built around it:
\*   pos      the key the cursor is on (0 before its first record)
\*   live     the transaction has started; snap is the store as it found it
\*   mreq     the cursor.update / cursor.delete request issued and not yet run
\*   locked   resolve has been called on the returned promise
\*   follow   the returned promise was resolved with the promise of mreq
\*   aborted  the transaction is aborted: the cursor request will fire onerror
\*   acc      the values array of getAllByCursor
\*   first    history: what the handling of the first matching record came to
\*   last     history: what the handling of the latest matching record came to
NoMatch == [st |-> "none"]
NoCur ==
    [pos |-> 0, live |-> FALSE, snap |-> <<>>, mreq |-> "none", locked |-> FALSE,
     follow |-> FALSE, aborted |-> FALSE, acc |-> <<>>, first |-> NoMatch, last |-> NoMatch]
IdleCall ==
    [op |-> "none", store |-> "task", val |-> NoVal, key |-> 0, attrName |-> "", attr |-> "",
     indexName |-> "", list |-> <<>>, tasks |-> <<>>, pc |-> "none", out |-> Pending, cur |-> NoCur,
     failed |-> FALSE]
NewCall(op, st) == [IdleCall EXCEPT !.op = op, !.store = st]

\* ------------------------------------------------------------- transactions
\* getStore(storeName, mode): a transaction on one store; task 0 is the call's own request
Tx(s, t, st, mode) == [slot |-> s, task |-> t, store |-> st, mode |-> mode]
\* mutant: the engine runs transactions in any order
ConflictNever(a, b) == FALSE
Conflict(a, b) == a.store = b.store /\ (a.mode = "readwrite" \/ b.mode = "readwrite")
\* the engine may run the transaction of (s, t): none created before it conflicts with it
Runnable(s, t) ==
    \E i \in 1..Len(queue) :
        /\ queue[i].slot = s /\ queue[i].task = t
        /\ \A j \in 1..(i - 1) : ~Conflict(queue[j], queue[i])
Dequeue(q, s, t) == SelectSeq(q, LAMBDA e : ~(e.slot = s /\ e.task = t))
Quiescent(s) == \A i \in 1..Len(queue) : queue[i].slot # s
\* slot s holds no call
Free(s) == calls[s].op = "none"
\* nothing is in flight: what a caller sees who awaits each call and lets the
\* engine finish before making the next one
Drained == queue = <<>>
\* slot s holds call c from now on
Put(s, c) == calls' = [calls EXCEPT ![s] = c] /\ UNCHANGED <<awaiting, conn>>
\* a caller may make a call from slot s
MayCall(s) == Free(s) /\ Serving(conn) /\ (awaiting => s = Caller /\ Drained)
Invoke(s, c) == Put(s, c)

\* the caller of slot s has its answer and nothing of the call is in flight:
\* the slot is free for the next call
Return(s) ==
    /\ calls[s].op # "none" /\ Settled(calls[s].out) /\ Quiescent(s)
    /\ Put(s, IdleCall)
    /\ UNCHANGED <<db, queue, lastWrite, expect, tracked>>

\* ------------------------------------------------------------- set, setBatch, update
\* mutant: the key-field check of set always passes
HasKeyFieldAlways(st, v) == TRUE
\* value.hasOwnProperty(key), key the store's keyPath
HasKeyField(st, v) == HasOwn(v, KeyPath(st))
\* keys.indexOf(x)
IndexOf(ks, x) ==
    IF \E i \in 1..Len(ks) : ks[i] = x
    THEN (CHOOSE i \in 1..Len(ks) : ks[i] = x /\ \A j \in 1..(i - 1) : ks[j] # x) - 1
    ELSE -1
\* one run of the async function set, up to its first await or its return
SetTask(st, v) ==
    IF HasKeyField(st, v)
    THEN [val |-> v, pc |-> "keys", out |-> Pending]
    ELSE [val |-> v, pc |-> "done", out |-> Resolved(Status(setNoCorresponding))]
\* the getAllKeys transactions the set runs have created, in call order
KeysTxs(s, st, tasks) ==
    LET idx == SelectSeq([i \in 1..Len(tasks) |-> i], LAMBDA i : tasks[i].pc = "keys")
    IN  [j \in 1..Len(idx) |-> Tx(s, idx[j], st, "readonly")]
\* await Promise.all(setList), then the comparison of the lengths
BatchOut(list, tasks, out) ==
    IF Settled(out) THEN out
    ELSE IF \E i \in 1..Len(tasks) : tasks[i].out.st = "rejected"
    THEN Rejected((tasks[CHOOSE i \in 1..Len(tasks) : tasks[i].out.st = "rejected"]).out.v)
    ELSE IF \A i \in 1..Len(tasks) : tasks[i].out.st = "resolved"
    THEN LET resList == [i \in 1..Len(tasks) |-> tasks[i].out.v]
         IN  Resolved(Status(IF Len(resList) = Len(list) THEN setBatchSuccess ELSE setBatchFail))
    ELSE Pending
\* the promise the caller holds
CallOut(c, tasks) ==
    IF c.op = "setBatch" THEN BatchOut(c.list, tasks, c.out) ELSE tasks[1].out

CallSet(s, st, v) ==
    /\ MayCall(s)
    /\ LET tasks == <<SetTask(st, v)>>
           c == [NewCall("set", st) EXCEPT !.val = v, !.tasks = tasks, !.pc = "tasks"]
       IN  /\ Invoke(s, [c EXCEPT !.out = CallOut(c, tasks)])
           /\ queue' = queue \o KeysTxs(s, st, tasks)
    /\ UNCHANGED <<db, lastWrite, expect, tracked>>

CallSetBatch(s, st, list) ==
    /\ MayCall(s)
    /\ LET tasks == [i \in 1..Len(list) |-> SetTask(st, list[i])]
           c == [NewCall("setBatch", st) EXCEPT !.list = list, !.tasks = tasks, !.pc = "tasks"]
       IN  /\ Invoke(s, [c EXCEPT !.out = CallOut(c, tasks)])
           /\ queue' = queue \o KeysTxs(s, st, tasks)
    /\ UNCHANGED <<db, lastWrite, expect, tracked>>

\* update: store.put throws DataError at once when the value has no key
CallUpdate(s, st, v) ==
    /\ MayCall(s)
    /\ LET c == [NewCall("update", st) EXCEPT !.val = v, !.pc = "tasks"]
       IN  IF HasKeyField(st, v)
           THEN /\ Invoke(s, [c EXCEPT !.tasks = <<[val |-> v, pc |-> "put", out |-> Pending]>>])
                /\ queue' = Append(queue, Tx(s, 1, st, "readwrite"))
           ELSE /\ Invoke(s, [c EXCEPT !.out = Thrown(DataError), !.pc = "done"])
                /\ queue' = queue
    /\ UNCHANGED <<db, lastWrite, expect, tracked>>

\* a task of slot s changes; the caller's promise follows
SetTasks(s, tasks) ==
    Put(s, [calls[s] EXCEPT !.tasks = tasks, !.out = CallOut(calls[s], tasks)])

\* set: the getAllKeys request settles and the function resumes after its await
SetKeysDone(s, i, ok) ==
    LET c == calls[s]
        st == c.store
    IN  /\ c.pc = "tasks" /\ i \in 1..Len(c.tasks) /\ c.tasks[i].pc = "keys"
        /\ Runnable(s, i)
        /\ LET v == c.tasks[i].val
               keys == KeysOf(db[st])
           IN  IF ~ok
               THEN \* keys is undefined: keys.indexOf throws inside the async function
                    /\ SetTasks(s, [c.tasks EXCEPT ![i].pc = "done", ![i].out = Rejected(TypeError)])
                    /\ queue' = Dequeue(queue, s, i)
               ELSE IF IndexOf(keys, v[KeyPath(st)]) > -1
               THEN /\ SetTasks(s, [c.tasks EXCEPT ![i].pc = "put"])
                    /\ queue' = Append(Dequeue(queue, s, i), Tx(s, i, st, "readwrite"))
               ELSE /\ SetTasks(s, [c.tasks EXCEPT ![i].pc = "add"])
                    /\ queue' = Append(Dequeue(queue, s, i), Tx(s, i, st, "readwrite"))
        /\ UNCHANGED <<db, lastWrite, expect, tracked>>

\* set: promisify(req, setSuccess, setFail) of the add request
SetAddDone(s, i, ok) ==
    LET c == calls[s]
        st == c.store
    IN  /\ c.pc = "tasks" /\ i \in 1..Len(c.tasks) /\ c.tasks[i].pc = "add"
        /\ Runnable(s, i)
        /\ queue' = Dequeue(queue, s, i)
        /\ LET v == c.tasks[i].val
           IN  IF ok /\ v.id \notin KeySet(db[st])
               THEN /\ db' = [db EXCEPT ![st] = EngineAdd(db[st], v)]
                    /\ SetTasks(s, [c.tasks EXCEPT ![i].pc = "done", ![i].out = Promisify(TRUE, setSuccess, setFail)])
                    /\ lastWrite' = [lastWrite EXCEPT ![st] = [k |-> "add", v |-> v]]
                    /\ expect' = [expect EXCEPT ![st] = @ \cup {v.id}]
               ELSE /\ SetTasks(s, [c.tasks EXCEPT ![i].pc = "done", ![i].out = Promisify(FALSE, setSuccess, setFail)])
                    /\ UNCHANGED <<db, lastWrite, expect>>
        /\ UNCHANGED tracked

\* update: promisify(req, updateSuccess, updateFail) of the put request
UpdateDone(s, i, ok) ==
    LET c == calls[s]
        st == c.store
    IN  /\ c.pc = "tasks" /\ i \in 1..Len(c.tasks) /\ c.tasks[i].pc = "put"
        /\ Runnable(s, i)
        /\ queue' = Dequeue(queue, s, i)
        /\ LET v == c.tasks[i].val
           IN  IF ok
               THEN /\ db' = [db EXCEPT ![st] = EnginePut(db[st], v)]
                    /\ SetTasks(s, [c.tasks EXCEPT ![i].pc = "done", ![i].out = Promisify(TRUE, updateSuccess, updateFail)])
                    /\ lastWrite' = [lastWrite EXCEPT ![st] = [k |-> "other"]]
                    /\ expect' = [expect EXCEPT ![st] = @ \cup {v.id}]
               ELSE /\ SetTasks(s, [c.tasks EXCEPT ![i].pc = "done", ![i].out = Promisify(FALSE, updateSuccess, updateFail)])
                    /\ UNCHANGED <<db, lastWrite, expect>>
        /\ UNCHANGED tracked

\* ------------------------------------------------------------- get, getAll, getAllKeys, remove, removeAll
\* makeRequest(storeName, mode, action, ...params): one request (task 0) in a
\* transaction of its own
Request(s, st, op, k, mode) ==
    /\ Invoke(s, [NewCall(op, st) EXCEPT !.key = k, !.pc = "req"])
    /\ queue' = Append(queue, Tx(s, 0, st, mode))
    /\ UNCHANGED <<db, lastWrite, expect, tracked>>

CallGet(s, st, k) == MayCall(s) /\ Request(s, st, "get", k, "readonly")
CallGetAll(s, st) == MayCall(s) /\ Request(s, st, "getAll", 0, "readonly")
CallGetAllKeys(s, st) == MayCall(s) /\ Request(s, st, "getAllKeys", 0, "readonly")
CallRemove(s, st, k) == MayCall(s) /\ Request(s, st, "remove", k, "readwrite")
CallRemoveAll(s, st) == MayCall(s) /\ Request(s, st, "removeAll", 0, "readwrite")

\* the request of slot s settles and its promise with it
Settle(s, ok, out) ==
    /\ queue' = Dequeue(queue, s, 0)
    /\ Put(s, [calls[s] EXCEPT !.pc = "done", !.out = out, !.failed = ~ok])
AwaitsRequest(s, op) ==
    /\ calls[s].op = op /\ calls[s].pc = "req"
    /\ Runnable(s, 0)

GetDone(s, ok) ==
    /\ AwaitsRequest(s, "get")
    /\ Settle(s, ok, PromisifyRes(ok, Lookup(db[calls[s].store], calls[s].key)))
    /\ UNCHANGED <<db, lastWrite, expect, tracked>>

GetAllDone(s, ok) ==
    /\ AwaitsRequest(s, "getAll")
    /\ Settle(s, ok, PromisifyRes(ok, ListVal(db[calls[s].store])))
    /\ UNCHANGED <<db, lastWrite, expect, tracked>>

GetAllKeysDone(s, ok) ==
    /\ AwaitsRequest(s, "getAllKeys")
    /\ Settle(s, ok, PromisifyRes(ok, KeysVal(KeysOf(db[calls[s].store]))))
    /\ UNCHANGED <<db, lastWrite, expect, tracked>>

\* mutant: remove issues clear
RemoveActionClear(c, k) == EngineClear(c)
\* remove: the action 'delete' of makeRequest
RemoveAction(c, k) == EngineDelete(c, k)
RemoveDone(s, ok) ==
    LET st == calls[s].store
    IN  /\ AwaitsRequest(s, "remove")
        /\ Settle(s, ok, Promisify(ok, removeSuccess, removeFail))
        /\ IF ok
           THEN /\ db' = [db EXCEPT ![st] = RemoveAction(db[st], calls[s].key)]
                /\ lastWrite' = [lastWrite EXCEPT ![st] =
                                    [k |-> "remove", key |-> calls[s].key,
                                     had |-> calls[s].key \in KeySet(db[st])]]
                /\ expect' = [expect EXCEPT ![st] = @ \ {calls[s].key}]
           ELSE UNCHANGED <<db, lastWrite, expect>>
        /\ UNCHANGED tracked

RemoveAllDone(s, ok) ==
    LET st == calls[s].store
    IN  /\ AwaitsRequest(s, "removeAll")
        /\ Settle(s, ok, Promisify(ok, removeAllSuccess, removeAllFail))
        /\ IF ok
           THEN /\ db' = [db EXCEPT ![st] = EngineClear(db[st])]
                /\ lastWrite' = [lastWrite EXCEPT ![st] = [k |-> "clear", n |-> Len(db[st])]]
                /\ expect' = [expect EXCEPT ![st] = {}]
                /\ tracked' = [tracked EXCEPT ![st] = TRUE]
           ELSE UNCHANGED <<db, lastWrite, expect, tracked>>

\* ------------------------------------------------------------- index reads
\* makeIndexRequest(storeName, indexName, action, ...params): the transaction is
\* readonly; store.index(indexName) throws NotFoundError at once when the store
\* has no such index, before any request exists
IndexRequest(s, st, ix, op, k) ==
    /\ LET c == [NewCall(op, st) EXCEPT !.indexName = ix, !.key = k]
       IN  IF HasIndex(st, ix)
           THEN /\ Invoke(s, [c EXCEPT !.pc = "req"])
                /\ queue' = Append(queue, Tx(s, 0, st, "readonly"))
           ELSE /\ Invoke(s, [c EXCEPT !.out = Thrown(NotFoundError), !.pc = "done"])
                /\ queue' = queue
    /\ UNCHANGED <<db, lastWrite, expect, tracked>>

CallGetByIndex(s, st, ix, k) == MayCall(s) /\ IndexRequest(s, st, ix, "getByIndex", k)
CallGetCountByIndex(s, st, ix, k) == MayCall(s) /\ IndexRequest(s, st, ix, "getCountByIndex", k)
CallGetAllByIndex(s, st, ix) == MayCall(s) /\ IndexRequest(s, st, ix, "getAllByIndex", 0)
CallGetAllKeysByIndex(s, st, ix) == MayCall(s) /\ IndexRequest(s, st, ix, "getAllKeysByIndex", 0)
CallGetKeyByIndex(s, st, ix, k) == MayCall(s) /\ IndexRequest(s, st, ix, "getKeyByIndex", k)

GetByIndexDone(s, ok) ==
    LET c == calls[s]
    IN  /\ AwaitsRequest(s, "getByIndex")
        /\ Settle(s, ok, PromisifyRes(ok, IndexGet(db[c.store], c.indexName, c.key)))
        /\ UNCHANGED <<db, lastWrite, expect, tracked>>

GetCountByIndexDone(s, ok) ==
    LET c == calls[s]
    IN  /\ AwaitsRequest(s, "getCountByIndex")
        /\ Settle(s, ok, PromisifyRes(ok, IndexCount(db[c.store], c.indexName, c.key)))
        /\ UNCHANGED <<db, lastWrite, expect, tracked>>

GetAllByIndexDone(s, ok) ==
    LET c == calls[s]
    IN  /\ AwaitsRequest(s, "getAllByIndex")
        /\ Settle(s, ok, PromisifyRes(ok, IndexGetAll(db[c.store], c.indexName)))
        /\ UNCHANGED <<db, lastWrite, expect, tracked>>

GetAllKeysByIndexDone(s, ok) ==
    LET c == calls[s]
    IN  /\ AwaitsRequest(s, "getAllKeysByIndex")
        /\ Settle(s, ok, PromisifyRes(ok, IndexGetAllKeys(db[c.store], c.indexName)))
        /\ UNCHANGED <<db, lastWrite, expect, tracked>>

GetKeyByIndexDone(s, ok) ==
    LET c == calls[s]
    IN  /\ AwaitsRequest(s, "getKeyByIndex")
        /\ Settle(s, ok, PromisifyRes(ok, IndexGetKey(db[c.store], c.indexName, c.key)))
        /\ UNCHANGED <<db, lastWrite, expect, tracked>>

\* ------------------------------------------------------------- cursor facade
\* getCursor(storeName, mode): openCursor (task 0) in a transaction of its own
OpenCursor(s, st, op, an, a, nv, mode) ==
    /\ Invoke(s, [NewCall(op, st) EXCEPT !.attrName = an, !.attr = a, !.val = nv, !.pc = "cursor"])
    /\ queue' = Append(queue, Tx(s, 0, st, mode))
    /\ UNCHANGED <<db, lastWrite, expect, tracked>>

\* getCursor(storeName): transaction(storeName, undefined) is readonly
CallGetAllByCursor(s, st) == MayCall(s) /\ OpenCursor(s, st, "getAllByCursor", "", "", NoVal, "readonly")
CallUpdateByCursor(s, st, an, a, nv) == MayCall(s) /\ OpenCursor(s, st, "updateByCursor", an, a, nv, "readwrite")
CallDeleteByCursor(s, st, an, a) == MayCall(s) /\ OpenCursor(s, st, "deleteByCursor", an, a, NoVal, "readwrite")

\* the cursor request of slot s is the next request of its transaction to run
AwaitsCursor(s, op) ==
    /\ calls[s].op = op /\ calls[s].pc = "cursor"
    /\ calls[s].cur.mreq = "none"
    /\ Runnable(s, 0)
\* the records the cursor has still to visit, and whether e.target.result is null
Ahead(s) == After(db[calls[s].store], calls[s].cur.pos)
\* mutant: the cursor stops after the first match
AtEndAfterMatch(s) == Ahead(s) = <<>> \/ calls[s].cur.locked
AtEnd(s) == Ahead(s) = <<>>
\* mutant: an aborted transaction leaves the store empty
SnapOfNothing(s) == <<>>
\* the store as the transaction of slot s found it
SnapOf(s) == IF calls[s].cur.live THEN calls[s].cur.snap ELSE db[calls[s].store]
\* mutant: the keys are compared by presence only
SameKeyLoose(kp, r, nv) == HasOwn(nv, kp)
\* mutant: every resolve is honoured, the last one wins
CurResolveAlways(c, v) == [c EXCEPT !.out = Resolved(v), !.cur.locked = TRUE]
\* mutant: the attribute is matched by presence only
MatchesLoose(r, an, a) == HasOwn(r, an)
\* value.hasOwnProperty(attrName) && value[attrName] === attr
Matches(r, an, a) == HasOwn(r, an) /\ r[an] = a
\* value[keyPath] === newVal[keyPath]
SameKey(kp, r, nv) ==
    IF HasOwn(r, kp) /\ HasOwn(nv, kp) THEN r[kp] = nv[kp]
    ELSE ~HasOwn(r, kp) /\ ~HasOwn(nv, kp)
\* resolve(v) on the promise of a cursor method
CurResolve(c, v) ==
    IF c.cur.locked THEN c ELSE [c EXCEPT !.out = Resolved(v), !.cur.locked = TRUE]
\* resolve(promise of the request just issued)
CurFollow(c) ==
    IF c.cur.locked THEN c ELSE [c EXCEPT !.cur.follow = TRUE, !.cur.locked = TRUE]
\* history: the handling of a matching record came to promise p
NoteMatch(c, p) ==
    [c EXCEPT !.cur.first = IF @ = NoMatch THEN p ELSE @, !.cur.last = p]
\* history: the request issued for the latest matching record settled as p
NoteSettled(c, p) ==
    [c EXCEPT !.cur.first = IF @ = Pending THEN p ELSE @, !.cur.last = p]
\* the cursor is exhausted: the handler has run and the transaction commits
Finish(s, c) ==
    /\ Put(s, [c EXCEPT !.pc = "done"])
    /\ queue' = Dequeue(queue, s, 0)
    /\ UNCHANGED <<db, lastWrite, expect, tracked>>
\* the cursor is on a record: the handler has run and called cursor.continue()
Advance(s, c) ==
    /\ Put(s, [c EXCEPT !.cur.pos = Ahead(s)[1].id, !.cur.live = TRUE, !.cur.snap = SnapOf(s)])
    /\ UNCHANGED <<db, queue, lastWrite, expect, tracked>>
\* the cursor request fires onerror: the handler has run, the transaction is
\* aborted and the store is as the transaction found it
Abort(s, c) ==
    LET st == calls[s].store
    IN  /\ Put(s, [c EXCEPT !.pc = "done", !.failed = TRUE])
        /\ queue' = Dequeue(queue, s, 0)
        /\ db' = [db EXCEPT ![st] = SnapOf(s)]
        /\ lastWrite' = IF db'[st] = db[st] THEN lastWrite ELSE [lastWrite EXCEPT ![st] = [k |-> "other"]]
        /\ UNCHANGED <<expect, tracked>>

\* mutant: the values array keeps only the latest value
AccumulateLatest(values, value) == <<value>>
\* values.push(cursor.value)
Accumulate(values, value) == Append(values, value)
\* getAllByCursor: req.onsuccess and req.onerror
GetAllByCursorEvent(s, ok) ==
    LET c == calls[s]
    IN  /\ AwaitsCursor(s, "getAllByCursor")
        /\ IF ~ok THEN Abort(s, CurResolve(c, Undefined))
           ELSE IF AtEnd(s) THEN Finish(s, CurResolve(c, ListVal(c.cur.acc)))
           ELSE Advance(s, [c EXCEPT !.cur.acc = Accumulate(@, Ahead(s)[1])])

\* updateByCursor: req.onsuccess and req.onerror
UpdateByCursorEvent(s, ok) ==
    LET c == calls[s]
    IN  /\ AwaitsCursor(s, "updateByCursor")
        /\ ok => ~c.cur.aborted
        /\ IF ~ok THEN Abort(s, CurResolve(c, Status(cursorUpdateFail)))
           ELSE IF AtEnd(s) THEN Finish(s, CurResolve(c, Status(noFound)))
           ELSE LET value == Ahead(s)[1]
                IN  IF Matches(value, c.attrName, c.attr)
                    THEN IF SameKey(KeyPath(c.store), value, c.val)
                         THEN Advance(s, NoteMatch([CurFollow(c) EXCEPT !.cur.mreq = "update"], Pending))
                         ELSE Advance(s, NoteMatch(CurResolve(c, Status(primaryKey)),
                                                   Resolved(Status(primaryKey))))
                    ELSE Advance(s, c)

\* deleteByCursor: req.onsuccess and req.onerror
DeleteByCursorEvent(s, ok) ==
    LET c == calls[s]
    IN  /\ AwaitsCursor(s, "deleteByCursor")
        /\ ok => ~c.cur.aborted
        /\ IF ~ok THEN Abort(s, CurResolve(c, Status(deleteFail)))
           ELSE IF AtEnd(s) THEN Finish(s, CurResolve(c, Status(noFound)))
           ELSE LET value == Ahead(s)[1]
                IN  IF Matches(value, c.attrName, c.attr)
                    THEN Advance(s, NoteMatch([CurFollow(c) EXCEPT !.cur.mreq = "delete"], Pending))
                    ELSE Advance(s, c)

\* mutant: the returned promise is never told that the request settled
FollowedNever(c, inner) == [c EXCEPT !.cur.mreq = "none"]
\* the promise of the cursor.update / cursor.delete request settles, and the
\* returned promise with it when it follows that promise
Followed(c, inner) ==
    IF c.cur.follow
    THEN [c EXCEPT !.out = inner, !.cur.follow = FALSE, !.cur.mreq = "none"]
    ELSE [c EXCEPT !.cur.mreq = "none"]
\* a failed request that nobody cancels aborts the transaction
MutationFailed(s, c) ==
    LET st == calls[s].store
    IN  /\ Put(s, [c EXCEPT !.cur.aborted = TRUE])
        /\ db' = [db EXCEPT ![st] = SnapOf(s)]
        /\ lastWrite' = IF db'[st] = db[st] THEN lastWrite ELSE [lastWrite EXCEPT ![st] = [k |-> "other"]]
        /\ UNCHANGED <<queue, expect, tracked>>

\* updateByCursor: promisify(updateReq, updateSuccess, updateFail)
CursorUpdateDone(s, ok) ==
    LET c == calls[s]
        st == c.store
        inner == Promisify(ok, cursorUpdateSuccess, cursorUpdateFail)
    IN  /\ c.op = "updateByCursor" /\ c.pc = "cursor" /\ c.cur.mreq = "update"
        /\ Runnable(s, 0)
        /\ IF ok
           THEN /\ Put(s, NoteSettled(Followed(c, inner), inner))
                /\ db' = [db EXCEPT ![st] = EnginePut(db[st], c.val)]
                /\ lastWrite' = [lastWrite EXCEPT ![st] = [k |-> "other"]]
                /\ UNCHANGED <<queue, expect, tracked>>
           ELSE MutationFailed(s, NoteSettled(Followed(c, inner), inner))

\* deleteByCursor: promisify(deleteReq, deleteSuccess, deleteFail)
CursorDeleteDone(s, ok) ==
    LET c == calls[s]
        st == c.store
        inner == Promisify(ok, deleteSuccess, deleteFail)
    IN  /\ c.op = "deleteByCursor" /\ c.pc = "cursor" /\ c.cur.mreq = "delete"
        /\ Runnable(s, 0)
        /\ IF ok
           THEN /\ Put(s, NoteSettled(Followed(c, inner), inner))
                /\ db' = [db EXCEPT ![st] = EngineDelete(db[st], c.cur.pos)]
                /\ lastWrite' = [lastWrite EXCEPT ![st] = [k |-> "other"]]
                /\ expect' = [expect EXCEPT ![st] = {}]
                /\ tracked' = [tracked EXCEPT ![st] = FALSE]
                /\ UNCHANGED queue
           ELSE MutationFailed(s, NoteSettled(Followed(c, inner), inner))

\* ------------------------------------------------------------- open
\* if (this._dataBase): the constructor sets {} and the handlers a connection,
\* both objects
Truthy(target) == target \in {"empty", "connection"}
\* mutant: no declared store is found missing
MissingNone(c) == {}
\* the declared stores for which !objectStoreNames.contains(name)
Missing(c) == {st \in Stores : c.list[st] # NoDecl /\ c.have[st] = ""}
OpenFrame == UNCHANGED <<db, calls, queue, lastWrite, expect, tracked, awaiting>>

\* open() of IndexDB: super.open(this.createIndex), up to its await
CallOpen ==
    /\ conn.pc = "new"
    /\ conn' =
         IF Truthy(conn.target)
         THEN IF conn.engine
              THEN [conn EXCEPT !.pc = "request"]
              ELSE \* this._indexedDB is undefined: .open throws inside the async function
                   [conn EXCEPT !.pc = "done", !.out = Rejected(TypeError)]
         ELSE [conn EXCEPT !.pc = "done", !.out = Resolved(Status(compatibleFail))]
    /\ OpenFrame

\* req.onupgradeneeded: fired when the database is created
OpenUpgradeNeeded ==
    /\ conn.pc = "request" /\ conn.fresh
    /\ LET new == Missing(conn)
           indexed == {st \in new : conn.list[st].indexed}
       IN  conn' = [conn EXCEPT
                      !.target = "connection",
                      !.pc = "upgraded",
                      !.have = [st \in Stores |-> IF st \in new THEN conn.list[st].key ELSE @[st]],
                      !.ix = @ \cup indexed,
                      !.installs = [st \in Stores |-> IF st \in indexed THEN @[st] + 1 ELSE @[st]]]
    /\ OpenFrame

\* req.onsuccess: after the upgrade when the database is created
OpenSuccess ==
    /\ conn.pc = "upgraded" \/ (conn.pc = "request" /\ ~conn.fresh)
    /\ conn' = [conn EXCEPT !.target = "connection", !.pc = "done", !.fired = "success",
                            !.out = Resolve(@, This)]
    /\ OpenFrame

\* req.onerror: an upgrade under way is rolled back
OpenError ==
    /\ conn.pc \in {"request", "upgraded"}
    /\ conn' = [conn EXCEPT !.pc = "done", !.fired = "error",
                            !.out = Reject(@, Status(openFail)),
                            !.have = IF conn.pc = "upgraded" THEN NoStores ELSE @,
                            !.ix = IF conn.pc = "upgraded" THEN {} ELSE @]
    /\ OpenFrame

\* the stores as Init has them
InitialDbs == {d \in [Stores -> Contents] : \A st \in Stores \ CallStores : d[st] = <<>>}
\* after construction: any host, any store list, the database absent or there
\* with any stores; records only in the database of the readme example
InitOpen ==
    /\ \E e \in BOOLEAN, f \in BOOLEAN, l \in StoreLists,
          h \in [Stores -> KeyFields \cup {""}], x \in SUBSET Stores :
          /\ f => h = NoStores
          /\ \A st \in x : h[st] # ""
          /\ conn = NewConn(e, f, l, h, x)
    /\ db \in InitialDbs
    /\ [conn EXCEPT !.target = "connection", !.pc = "done", !.fired = "success",
                    !.out = Resolved(This)] # Opened
          => db = [st \in Stores |-> <<>>]
    /\ calls = [s \in Slots |-> IdleCall]
    /\ queue = <<>>
    /\ lastWrite = [st \in Stores |-> [k |-> "other"]]
    /\ expect = [st \in Stores |-> KeySet(db[st])]
    /\ tracked = [st \in Stores |-> TRUE]
    /\ awaiting = TRUE

NextOpen ==
    \/ CallOpen
    \/ OpenUpgradeNeeded
    \/ OpenSuccess
    \/ OpenError

SpecOpen == InitOpen /\ [][NextOpen]_vars

Init ==
    /\ db \in [Stores -> Contents]
    /\ \A st \in Stores \ CallStores : db[st] = <<>>
    /\ calls = [s \in Slots |-> IdleCall]
    /\ queue = <<>>
    /\ lastWrite = [st \in Stores |-> [k |-> "other"]]
    /\ expect = [st \in Stores |-> KeySet(db[st])]
    /\ tracked = [st \in Stores |-> TRUE]
    /\ awaiting = TRUE
    /\ conn = Opened

Next ==
    \/ \E s \in Slots, st \in CallStores, v \in Values : CallSet(s, st, v)
    \/ \E s \in Slots, st \in CallStores, l \in BatchLists : CallSetBatch(s, st, l)
    \/ \E s \in Slots, st \in CallStores, v \in Values : CallUpdate(s, st, v)
    \/ \E s \in Slots, st \in CallStores, k \in Keys : CallGet(s, st, k)
    \/ \E s \in Slots, st \in CallStores : CallGetAll(s, st)
    \/ \E s \in Slots, st \in CallStores : CallGetAllKeys(s, st)
    \/ \E s \in Slots, st \in CallStores, k \in Keys : CallRemove(s, st, k)
    \/ \E s \in Slots, st \in CallStores : CallRemoveAll(s, st)
    \/ \E s \in Slots, st \in CallStores, ix \in IndexNames, k \in Keys : CallGetByIndex(s, st, ix, k)
    \/ \E s \in Slots, st \in CallStores, ix \in IndexNames, k \in Keys : CallGetCountByIndex(s, st, ix, k)
    \/ \E s \in Slots, st \in CallStores, ix \in IndexNames : CallGetAllByIndex(s, st, ix)
    \/ \E s \in Slots, st \in CallStores, ix \in IndexNames : CallGetAllKeysByIndex(s, st, ix)
    \/ \E s \in Slots, st \in CallStores, ix \in IndexNames, k \in Keys : CallGetKeyByIndex(s, st, ix, k)
    \/ \E s \in Slots, st \in CallStores : CallGetAllByCursor(s, st)
    \/ \E s \in Slots, st \in CallStores, an \in AttrNames, a \in AttrVals, nv \in Values :
          CallUpdateByCursor(s, st, an, a, nv)
    \/ \E s \in Slots, st \in CallStores, an \in AttrNames, a \in AttrVals :
          CallDeleteByCursor(s, st, an, a)
    \/ \E s \in Slots : Return(s)
    \/ \E s \in Slots, i \in 1..MaxBatch, ok \in BOOLEAN : SetKeysDone(s, i, ok)
    \/ \E s \in Slots, i \in 1..MaxBatch, ok \in BOOLEAN : SetAddDone(s, i, ok)
    \/ \E s \in Slots, i \in 1..MaxBatch, ok \in BOOLEAN : UpdateDone(s, i, ok)
    \/ \E s \in Slots, ok \in BOOLEAN : GetDone(s, ok)
    \/ \E s \in Slots, ok \in BOOLEAN : GetAllDone(s, ok)
    \/ \E s \in Slots, ok \in BOOLEAN : GetAllKeysDone(s, ok)
    \/ \E s \in Slots, ok \in BOOLEAN : RemoveDone(s, ok)
    \/ \E s \in Slots, ok \in BOOLEAN : RemoveAllDone(s, ok)
    \/ \E s \in Slots, ok \in BOOLEAN : GetByIndexDone(s, ok)
    \/ \E s \in Slots, ok \in BOOLEAN : GetCountByIndexDone(s, ok)
    \/ \E s \in Slots, ok \in BOOLEAN : GetAllByIndexDone(s, ok)
    \/ \E s \in Slots, ok \in BOOLEAN : GetAllKeysByIndexDone(s, ok)
    \/ \E s \in Slots, ok \in BOOLEAN : GetKeyByIndexDone(s, ok)
    \/ \E s \in Slots, ok \in BOOLEAN : GetAllByCursorEvent(s, ok)
    \/ \E s \in Slots, ok \in BOOLEAN : UpdateByCursorEvent(s, ok)
    \/ \E s \in Slots, ok \in BOOLEAN : DeleteByCursorEvent(s, ok)
    \/ \E s \in Slots, ok \in BOOLEAN : CursorUpdateDone(s, ok)
    \/ \E s \in Slots, ok \in BOOLEAN : CursorDeleteDone(s, ok)

Spec == Init /\ [][Next]_vars

\* ------------------------------------------------------------- concurrent callers
\* two callers that do not await each other: the mutating calls issued while
\* requests of other calls are in flight
InitConc ==
    /\ db \in InitialDbs
    /\ conn = Opened
    /\ calls = [s \in Slots |-> IdleCall]
    /\ queue = <<>>
    /\ lastWrite = [st \in Stores |-> [k |-> "other"]]
    /\ expect = [st \in Stores |-> KeySet(db[st])]
    /\ tracked = [st \in Stores |-> TRUE]
    /\ awaiting = FALSE

NextConc ==
    \/ \E s \in Slots, st \in CallStores, v \in Values : CallSet(s, st, v)
    \/ \E s \in Slots, st \in CallStores, l \in BatchLists : CallSetBatch(s, st, l)
    \/ \E s \in Slots, st \in CallStores, v \in Values : CallUpdate(s, st, v)
    \/ \E s \in Slots, st \in CallStores, k \in Keys : CallRemove(s, st, k)
    \/ \E s \in Slots, st \in CallStores : CallRemoveAll(s, st)
    \/ \E s \in Slots, st \in CallStores, an \in AttrNames, a \in AttrVals, nv \in Values :
          CallUpdateByCursor(s, st, an, a, nv)
    \/ \E s \in Slots, st \in CallStores, an \in AttrNames, a \in AttrVals :
          CallDeleteByCursor(s, st, an, a)
    \/ \E s \in Slots, i \in 1..MaxBatch, ok \in BOOLEAN : SetKeysDone(s, i, ok)
    \/ \E s \in Slots, i \in 1..MaxBatch, ok \in BOOLEAN : SetAddDone(s, i, ok)
    \/ \E s \in Slots, i \in 1..MaxBatch, ok \in BOOLEAN : UpdateDone(s, i, ok)
    \/ \E s \in Slots, ok \in BOOLEAN : RemoveDone(s, ok)
    \/ \E s \in Slots, ok \in BOOLEAN : RemoveAllDone(s, ok)
    \/ \E s \in Slots, ok \in BOOLEAN : UpdateByCursorEvent(s, ok)
    \/ \E s \in Slots, ok \in BOOLEAN : DeleteByCursorEvent(s, ok)
    \/ \E s \in Slots, ok \in BOOLEAN : CursorUpdateDone(s, ok)
    \/ \E s \in Slots, ok \in BOOLEAN : CursorDeleteDone(s, ok)

SpecConc == InitConc /\ [][NextConc]_vars

\* ------------------------------------------------------------- both stores in use
\* one call, to either store of the store list, both stores holding any
\* records; the index reads on the store without an index throw NotFoundError
InitFrame ==
    /\ db \in [Stores -> Contents]
    /\ conn = Opened
    /\ calls = [s \in Slots |-> IdleCall]
    /\ queue = <<>>
    /\ lastWrite = [st \in Stores |-> [k |-> "other"]]
    /\ expect = [st \in Stores |-> KeySet(db[st])]
    /\ tracked = [st \in Stores |-> TRUE]
    /\ awaiting = TRUE

NextFrame ==
    \/ \E s \in Slots, st \in Stores, v \in Values : CallSet(s, st, v)
    \/ \E s \in Slots, st \in Stores, l \in BatchLists : CallSetBatch(s, st, l)
    \/ \E s \in Slots, st \in Stores, v \in Values : CallUpdate(s, st, v)
    \/ \E s \in Slots, st \in Stores, k \in Keys : CallGet(s, st, k)
    \/ \E s \in Slots, st \in Stores : CallGetAll(s, st)
    \/ \E s \in Slots, st \in Stores : CallGetAllKeys(s, st)
    \/ \E s \in Slots, st \in Stores, k \in Keys : CallRemove(s, st, k)
    \/ \E s \in Slots, st \in Stores : CallRemoveAll(s, st)
    \/ \E s \in Slots, st \in Stores, ix \in IndexNames, k \in Keys : CallGetByIndex(s, st, ix, k)
    \/ \E s \in Slots, st \in Stores, ix \in IndexNames, k \in Keys : CallGetCountByIndex(s, st, ix, k)
    \/ \E s \in Slots, st \in Stores, ix \in IndexNames : CallGetAllByIndex(s, st, ix)
    \/ \E s \in Slots, st \in Stores, ix \in IndexNames : CallGetAllKeysByIndex(s, st, ix)
    \/ \E s \in Slots, st \in Stores, ix \in IndexNames, k \in Keys : CallGetKeyByIndex(s, st, ix, k)
    \/ \E s \in Slots, st \in Stores : CallGetAllByCursor(s, st)
    \/ \E s \in Slots, st \in Stores, an \in AttrNames, a \in AttrVals, nv \in Values :
          CallUpdateByCursor(s, st, an, a, nv)
    \/ \E s \in Slots, st \in Stores, an \in AttrNames, a \in AttrVals :
          CallDeleteByCursor(s, st, an, a)
    \/ \E s \in Slots, i \in 1..MaxBatch, ok \in BOOLEAN : SetKeysDone(s, i, ok)
    \/ \E s \in Slots, i \in 1..MaxBatch, ok \in BOOLEAN : SetAddDone(s, i, ok)
    \/ \E s \in Slots, i \in 1..MaxBatch, ok \in BOOLEAN : UpdateDone(s, i, ok)
    \/ \E s \in Slots, ok \in BOOLEAN : GetDone(s, ok)
    \/ \E s \in Slots, ok \in BOOLEAN : GetAllDone(s, ok)
    \/ \E s \in Slots, ok \in BOOLEAN : GetAllKeysDone(s, ok)
    \/ \E s \in Slots, ok \in BOOLEAN : RemoveDone(s, ok)
    \/ \E s \in Slots, ok \in BOOLEAN : RemoveAllDone(s, ok)
    \/ \E s \in Slots, ok \in BOOLEAN : GetByIndexDone(s, ok)
    \/ \E s \in Slots, ok \in BOOLEAN : GetCountByIndexDone(s, ok)
    \/ \E s \in Slots, ok \in BOOLEAN : GetAllByIndexDone(s, ok)
    \/ \E s \in Slots, ok \in BOOLEAN : GetAllKeysByIndexDone(s, ok)
    \/ \E s \in Slots, ok \in BOOLEAN : GetKeyByIndexDone(s, ok)
    \/ \E s \in Slots, ok \in BOOLEAN : GetAllByCursorEvent(s, ok)
    \/ \E s \in Slots, ok \in BOOLEAN : UpdateByCursorEvent(s, ok)
    \/ \E s \in Slots, ok \in BOOLEAN : DeleteByCursorEvent(s, ok)
    \/ \E s \in Slots, ok \in BOOLEAN : CursorUpdateDone(s, ok)
    \/ \E s \in Slots, ok \in BOOLEAN : CursorDeleteDone(s, ok)

SpecFrame == InitFrame /\ [][NextFrame]_vars

\* ------------------------------------------------------------- life cycle
\* the events of the host engine: every handler of a native request
EngineStep ==
    \/ OpenUpgradeNeeded
    \/ OpenSuccess
    \/ OpenError
    \/ \E s \in Slots, i \in 1..MaxBatch, ok \in BOOLEAN : SetKeysDone(s, i, ok)
    \/ \E s \in Slots, i \in 1..MaxBatch, ok \in BOOLEAN : SetAddDone(s, i, ok)
    \/ \E s \in Slots, i \in 1..MaxBatch, ok \in BOOLEAN : UpdateDone(s, i, ok)
    \/ \E s \in Slots, ok \in BOOLEAN : GetDone(s, ok)
    \/ \E s \in Slots, ok \in BOOLEAN : GetAllDone(s, ok)
    \/ \E s \in Slots, ok \in BOOLEAN : GetAllKeysDone(s, ok)
    \/ \E s \in Slots, ok \in BOOLEAN : RemoveDone(s, ok)
    \/ \E s \in Slots, ok \in BOOLEAN : RemoveAllDone(s, ok)
    \/ \E s \in Slots, ok \in BOOLEAN : GetByIndexDone(s, ok)
    \/ \E s \in Slots, ok \in BOOLEAN : GetCountByIndexDone(s, ok)
    \/ \E s \in Slots, ok \in BOOLEAN : GetAllByIndexDone(s, ok)
    \/ \E s \in Slots, ok \in BOOLEAN : GetAllKeysByIndexDone(s, ok)
    \/ \E s \in Slots, ok \in BOOLEAN : GetKeyByIndexDone(s, ok)
    \/ \E s \in Slots, ok \in BOOLEAN : GetAllByCursorEvent(s, ok)
    \/ \E s \in Slots, ok \in BOOLEAN : UpdateByCursorEvent(s, ok)
    \/ \E s \in Slots, ok \in BOOLEAN : DeleteByCursorEvent(s, ok)
    \/ \E s \in Slots, ok \in BOOLEAN : CursorUpdateDone(s, ok)
    \/ \E s \in Slots, ok \in BOOLEAN : CursorDeleteDone(s, ok)

\* the instance from its construction on: open(), then the calls on the
\* opened connection
NextLife == NextOpen \/ Next

\* the host fires success or error on every request it has been given
SpecLife == InitOpen /\ [][NextLife]_vars /\ WF_vars(EngineStep)


\* ------------------------------------------------------------- properties
Code(p) == IF p.st \in {"resolved", "rejected"} /\ p.v.t = "status" THEN p.v.code ELSE 0
ResolvedWith(p, code) == p = Resolved(Status(code))
RejectedWith(p, code) == p = Rejected(Status(code))
\* slot s makes a call of method op in this step
Starts(s, op) == calls[s].op = "none" /\ calls'[s].op = op
\* the promise of slot s settles in this step
Settles(s) == calls[s].out.st = "pending" /\ calls'[s].out.st # "pending"
\* slot s holds a set call whose value lacks the key field of its store
KeylessSet(c) == c.op = "set" /\ ~HasOwn(c.val, KeyPath(c.store))
HasTx(s) == \E i \in 1..Len(queue) : queue[i].slot = s

\* C1: set(store, value) with a value that has no own property k, k the key
\* field of the store, yields setNoCorresponding (105); the call leaves the
\* records of every store as they are and issues no request at all (no
\* getAllKeys, no add, no put), whatever the store holds.
C1_NoKeyField ==
    /\ [](\A s \in Slots : KeylessSet(calls[s]) =>
            /\ ResolvedWith(calls[s].out, setNoCorresponding)
            /\ ~HasTx(s))
    /\ [][\A s \in Slots : Starts(s, "set") /\ KeylessSet(calls'[s]) =>
            db' = db /\ queue' = queue]_vars
C1_Witness ==
    /\ KeylessSet(calls[Caller])
    /\ ResolvedWith(calls[Caller].out, setNoCorresponding)
    /\ Len(db[calls[Caller].store]) = MaxKey

\* the data-fetch call of slot s is over and its request did not fail
Fetched(c, op) == c.op = op /\ c.pc = "done" /\ ~c.failed
ToSet(q) == {q[i] : i \in 1..Len(q)}

\* C2: after a set(store, record) whose key was not in the store has resolved
\* with setSuccess (103), and with no other write on the store in between,
\* get(store, key) resolves with the inserted record (when the get request
\* itself succeeds; a failed request resolves with undefined, as promisifyRes
\* does for every data-fetch method).
C2_SetThenGet ==
    \A s \in Slots :
        LET c == calls[s]
            w == lastWrite[c.store]
        IN  Fetched(c, "get") /\ w.k = "add" /\ w.v.id = c.key =>
                c.out = Resolved(RecordVal(w.v))
C2_Witness ==
    LET c == calls[Caller]
        w == lastWrite[c.store]
    IN  /\ Fetched(c, "get") /\ w.k = "add" /\ w.v.id = c.key
        /\ HasOwn(w.v, "name")
        /\ c.out = Resolved(RecordVal(w.v))

\* C3: for a record whose key value is already in the store, set(store, record)
\* behaves as update(store, record): it settles as update does, resolved with
\* updateSuccess (106) with the stored record overwritten and the number of
\* records unchanged, or rejected with updateFail (107) with the store unchanged.
C3_SetActsAsUpdate ==
    [][\A s \in Slots :
          LET c == calls[s]
              st == c.store
          IN  c.op = "set" /\ Settles(s) /\ c.val.id \in KeySet(db[st]) =>
                \/ /\ ResolvedWith(calls'[s].out, updateSuccess)
                   /\ Lookup(db'[st], c.val.id) = RecordVal(c.val)
                   /\ Len(db'[st]) = Len(db[st])
                \/ /\ RejectedWith(calls'[s].out, updateFail)
                   /\ db' = db]_vars

\* C4: setBatch resolves with setBatchSuccess (112) if and only if every one
\* of its set calls resolved; if any set call fails (its add or its put is
\* refused: setFail, updateFail), the outcome of setBatch is setBatchFail (113).
C4_BatchOutcome ==
    \A s \in Slots :
        LET c == calls[s]
        IN  c.op = "setBatch" /\ Settled(c.out) =>
                /\ ResolvedWith(c.out, setBatchSuccess) <=>
                       \A i \in 1..Len(c.tasks) : c.tasks[i].out.st = "resolved"
                /\ (\E i \in 1..Len(c.tasks) :
                        Code(c.tasks[i].out) \in {setFail, updateFail}) =>
                       Code(c.out) = setBatchFail

\* C5: after any sequence of awaited set, update, remove and removeAll calls on
\* a store, getAllKeys(store) resolves with exactly the keys that were inserted
\* and not removed afterwards, each of them once (when the getAllKeys request
\* itself succeeds).
C5_AllKeys ==
    \A s \in Slots :
        LET c == calls[s]
        IN  Fetched(c, "getAllKeys") /\ tracked[c.store] =>
                /\ c.out.st = "resolved" /\ c.out.v.t = "keys"
                /\ ToSet(c.out.v.ks) = expect[c.store]
                /\ Len(c.out.v.ks) = Cardinality(expect[c.store])
C5_Witness ==
    LET c == calls[Caller]
    IN  /\ Fetched(c, "getAllKeys") /\ tracked[c.store]
        /\ lastWrite[c.store] = [k |-> "remove", key |-> 1, had |-> TRUE]
        /\ c.out = Resolved(KeysVal(<<MaxKey>>))

\* the cursor methods that write
Writes(c) == c.op \in {"updateByCursor", "deleteByCursor"}
\* the cursor of the call has been exhausted and no request of it failed
Exhausted(c) == c.pc = "done" /\ ~c.failed
\* the store as the cursor's transaction found it
Found(c) == IF c.cur.live THEN c.cur.snap ELSE db[c.store]
\* the records the call is looking for: own property attrName equal to attr
Wanted(c, r) == c.attrName \in DOMAIN r /\ r[c.attrName] = c.attr
WantedIdx(c) == {i \in 1..Len(Found(c)) : Wanted(c, Found(c)[i])}
\* newRecord carries the primary key of r
KeepsKey(c, r) == "id" \in DOMAIN c.val /\ c.val.id = r.id
FirstWanted(c) == Found(c)[CHOOSE i \in WantedIdx(c) : \A j \in WantedIdx(c) : i <= j]

\* C6 as stated: when a record matching attrName == attrValue has a primary key
\* different from newRecord's, updateByCursor resolves with primaryKey (117)
\* and no record of the store is modified (taken where no request fails).
C6_PrimaryKeyImmutable ==
    \A s \in Slots :
        LET c == calls[s]
        IN  /\ c.op = "updateByCursor" /\ Exhausted(c)
            /\ \E i \in WantedIdx(c) : ~KeepsKey(c, Found(c)[i])
            => ResolvedWith(c.out, primaryKey) /\ db[c.store] = Found(c)
\* C6 amended: when the first record in cursor order matching attrName ==
\* attrValue has a primary key different from newRecord's, updateByCursor
\* resolves with primaryKey (117) as soon as the cursor is on it; the call
\* never modifies a record whose primary key differs from newRecord's, and
\* modifies no record at all when every matching record has such a key.
C6_FirstMatchKey ==
    \A s \in Slots :
        LET c == calls[s]
        IN  c.op = "updateByCursor" /\ c.cur.live =>
                /\ (/\ WantedIdx(c) # {}
                    /\ ~KeepsKey(c, FirstWanted(c))
                    /\ c.cur.pos >= FirstWanted(c).id)
                   => ResolvedWith(c.out, primaryKey)
                /\ \A i \in 1..Len(Found(c)) :
                       ~KeepsKey(c, Found(c)[i]) => Found(c)[i] \in ToSet(db[c.store])
                /\ (\A i \in WantedIdx(c) : ~KeepsKey(c, Found(c)[i])) => db[c.store] = Found(c)
C6_Witness ==
    LET c == calls[Caller]
    IN  /\ c.op = "updateByCursor" /\ Exhausted(c)
        /\ Cardinality(WantedIdx(c)) = 2
        /\ ~KeepsKey(c, FirstWanted(c))
        /\ ResolvedWith(c.out, primaryKey)
        /\ db[c.store] # Found(c)

\* C7 as stated: with several matching records the outcome of updateByCursor /
\* deleteByCursor is the outcome of the last match to settle, and every
\* matching record has been replaced by newRecord / deleted.
C7_LastSettledWins ==
    \A s \in Slots :
        LET c == calls[s]
        IN  Writes(c) /\ Exhausted(c) /\ Cardinality(WantedIdx(c)) >= 2 =>
                /\ c.out = c.cur.last
                /\ \A i \in WantedIdx(c) :
                       IF c.op = "deleteByCursor"
                       THEN Found(c)[i].id \notin KeySet(db[c.store])
                       ELSE Lookup(db[c.store], Found(c)[i].id) = RecordVal(c.val)
\* what an exhausted cursor leaves in the store
Deleted(c) == SelectSeq(Found(c), LAMBDA r : ~Wanted(c, r))
Updated(c) ==
    [i \in 1..Len(Found(c)) |->
        IF Wanted(c, Found(c)[i]) /\ KeepsKey(c, Found(c)[i]) THEN c.val ELSE Found(c)[i]]
\* C7 amended: the outcome of updateByCursor / deleteByCursor is the outcome of
\* the first match in cursor order (the first resolve wins; later matches and
\* the exhaustion of the cursor do not change it).  When the cursor is exhausted
\* and no request failed, every matching record has been deleted
\* (deleteByCursor) or, if it has newRecord's primary key, replaced by newRecord
\* (updateByCursor); when a request failed, the store is as the call found it.
C7_FirstMatchWins ==
    \A s \in Slots :
        LET c == calls[s]
        IN  Writes(c) /\ c.pc = "done" =>
                /\ c.cur.first # NoMatch => c.out = c.cur.first
                /\ Exhausted(c) =>
                       db[c.store] = IF c.op = "deleteByCursor" THEN Deleted(c) ELSE Updated(c)
                /\ c.failed => db[c.store] = Found(c)
C7_Witness ==
    LET c == calls[Caller]
    IN  /\ Writes(c) /\ Exhausted(c) /\ Cardinality(WantedIdx(c)) >= 2
        /\ c.cur.first # c.cur.last
        /\ c.out = c.cur.first

\* C8: updateByCursor and deleteByCursor never reject: a failed cursor.update /
\* cursor.delete makes the promise resolve with updateFail (115) / deleteFail
\* (119), a successful one with the success status (114 / 118).
C8_NeverRejects ==
    \A s \in Slots :
        LET c == calls[s]
        IN  Writes(c) /\ Settled(c.out) =>
                /\ c.out.st = "resolved"
                /\ c.cur.first \notin {NoMatch, Pending} => c.out = Resolved(c.cur.first.v)

\* C9: provided the cursor request does not error, updateByCursor and
\* deleteByCursor resolve with noFound (116) if and only if no record the
\* cursor visited has own property attrName strictly equal to attrValue; once a
\* record has matched, resolve(noFound) at exhaustion does not change the outcome.
C9_NotFound ==
    \A s \in Slots :
        LET c == calls[s]
        IN  Writes(c) =>
                /\ Exhausted(c) => (ResolvedWith(c.out, noFound) <=> WantedIdx(c) = {})
                /\ c.cur.first # NoMatch => ~ResolvedWith(c.out, noFound)
C9_Witness ==
    LET c == calls[Caller]
    IN  /\ Writes(c) /\ Exhausted(c)
        /\ Len(Found(c)) = MaxKey /\ WantedIdx(c) = {}
        /\ \E i \in 1..Len(Found(c)) : c.attrName \in DOMAIN Found(c)[i]
        /\ ResolvedWith(c.out, noFound)
\* the other side: a match, then exhaustion
C9_WitnessMatched ==
    LET c == calls[Caller]
    IN  /\ Writes(c) /\ Exhausted(c) /\ WantedIdx(c) # {}
        /\ Settled(c.out) /\ ~ResolvedWith(c.out, noFound)

\* C10: getAllByCursor(store) resolves only when the cursor is exhausted, with
\* the values of all records of the store in cursor order, each once: the
\* sequence getAll returns; over an empty store that is the empty sequence, not
\* undefined (taken where the cursor request does not fail).
C10_GetAllByCursor ==
    \A s \in Slots :
        LET c == calls[s]
        IN  c.op = "getAllByCursor" =>
                /\ c.pc = "cursor" => c.out = Pending
                /\ Exhausted(c) => c.out = Resolved(ListVal(db[c.store]))
C10_Witness ==
    LET c == calls[Caller]
    IN  /\ c.op = "getAllByCursor" /\ Exhausted(c)
        /\ Len(db[c.store]) = MaxKey
        /\ c.out = Resolved(ListVal(db[c.store]))
C10_WitnessEmpty ==
    LET c == calls[Caller]
    IN  /\ c.op = "getAllByCursor" /\ Exhausted(c)
        /\ db[c.store] = <<>>
        /\ c.out = Resolved(ListVal(<<>>))

\* C11: after removeAll(store) has resolved with removeAllSuccess (110), and
\* with no other write on the store in between, getAll(store) resolves with the
\* empty sequence and getAllKeys(store) with the empty sequence (when the read
\* request itself succeeds), whatever the store held before.
C11_RemoveAllThenRead ==
    \A s \in Slots :
        LET c == calls[s]
        IN  lastWrite[c.store].k = "clear" =>
                /\ Fetched(c, "getAll") => c.out = Resolved(ListVal(<<>>))
                /\ Fetched(c, "getAllKeys") => c.out = Resolved(KeysVal(<<>>))
C11_Witness ==
    LET c == calls[Caller]
    IN  /\ lastWrite[c.store] = [k |-> "clear", n |-> MaxKey]
        /\ Fetched(c, "getAll")
        /\ c.out = Resolved(ListVal(<<>>))
C11_WitnessKeys ==
    LET c == calls[Caller]
    IN  /\ lastWrite[c.store] = [k |-> "clear", n |-> MaxKey]
        /\ Fetched(c, "getAllKeys")
        /\ c.out = Resolved(KeysVal(<<>>))

\* the data-fetch methods
DataFetch ==
    {"get", "getAll", "getAllKeys", "getByIndex", "getCountByIndex", "getAllByIndex",
     "getAllKeysByIndex", "getKeyByIndex", "getAllByCursor"}
\* what the native request of a finished data-fetch call produces on the store
\* as it is (the index of the store is over its primary key)
RequestResult(c) ==
    LET r == db[c.store]
        hit == {i \in 1..Len(r) : r[i].id = c.key}
        keys == [i \in 1..Len(r) |-> r[i].id]
    IN  CASE c.op \in {"get", "getByIndex"} ->
                IF hit = {} THEN Undefined ELSE RecordVal(r[CHOOSE i \in hit : TRUE])
          [] c.op \in {"getAll", "getAllByIndex", "getAllByCursor"} -> ListVal(r)
          [] c.op \in {"getAllKeys", "getAllKeysByIndex"} -> KeysVal(keys)
          [] c.op = "getCountByIndex" -> CountVal(Cardinality(hit))
          [] c.op = "getKeyByIndex" -> IF hit = {} THEN Undefined ELSE KeyVal(c.key)
\* task i of slot s has its add / put request run in this step
Runs(s, i, pc) ==
    /\ i \in 1..Len(calls[s].tasks) /\ calls[s].tasks[i].pc = pc
    /\ calls'[s].op = calls[s].op /\ calls'[s].tasks[i].pc = "done"

\* C13: the data-fetch methods (get, getAll, getAllKeys, the five index reads,
\* getAllByCursor) never reject: when their native request fails they resolve
\* with undefined, when it succeeds with the request's result.  The status-only
\* requests reject with their failure status when the native request fails:
\* remove with removeFail (109), removeAll with removeAllFail (111), the add of
\* set with setFail (104) and the put of update with updateFail (107), the
\* store being left as it was; otherwise they resolve with the success status.
C13_FailurePolicy ==
    /\ [](\A s \in Slots :
            LET c == calls[s]
            IN  /\ c.op \in DataFetch =>
                    /\ c.out.st # "rejected"
                    /\ c.pc = "done" /\ c.out.st # "thrown" =>
                           c.out = IF c.failed THEN Resolved(Undefined)
                                   ELSE Resolved(RequestResult(c))
                /\ c.op = "remove" /\ c.pc = "done" =>
                       c.out = IF c.failed THEN Rejected(Status(removeFail))
                               ELSE Resolved(Status(removeSuccess))
                /\ c.op = "removeAll" /\ c.pc = "done" =>
                       c.out = IF c.failed THEN Rejected(Status(removeAllFail))
                               ELSE Resolved(Status(removeAllSuccess)))
    /\ [][\A s \in Slots, i \in 1..MaxBatch :
            LET st == calls[s].store
                v == calls[s].tasks[i].val
                out == calls'[s].tasks[i].out
            IN  /\ Runs(s, i, "add") =>
                    \/ out = Resolved(Status(setSuccess)) /\ db'[st] # db[st]
                    \/ out = Rejected(Status(setFail)) /\ db' = db
                /\ Runs(s, i, "put") =>
                    \/ out = Resolved(Status(updateSuccess)) /\ Lookup(db'[st], v.id) = RecordVal(v)
                    \/ out = Rejected(Status(updateFail)) /\ db' = db]_vars
\* a failed index read of a key the store holds
C13_Witness ==
    LET c == calls[Caller]
    IN  /\ c.op = "getKeyByIndex" /\ c.pc = "done" /\ c.failed
        /\ c.key \in KeySet(db[c.store])
        /\ c.out = Resolved(Undefined)
\* a failed remove
C13_WitnessReject ==
    LET c == calls[Caller]
    IN  /\ c.op = "remove" /\ c.pc = "done" /\ c.failed
        /\ c.key \in KeySet(db[c.store])
        /\ c.out = Rejected(Status(removeFail))
\* a count that succeeded
C13_WitnessCount ==
    LET c == calls[Caller]
    IN  /\ c.op = "getCountByIndex" /\ c.pc = "done" /\ ~c.failed
        /\ c.out = Resolved(CountVal(1))

\* the records of c under other keys than k
Others(c, k) == SelectSeq(c, LAMBDA r : r.id # k)

\* C14: update(store, value) is an upsert keyed by the key field of value: when
\* its put request succeeds the call resolves with updateSuccess (106), the
\* store holds exactly one record with that key, which is value (inserted if
\* the key was absent, overwritten if present), and all other records and all
\* other stores are unchanged; a put that fails rejects with updateFail (107)
\* and changes nothing.
C14_UpdateUpserts ==
    [][\A s \in Slots :
          LET c == calls[s]
              st == c.store
              out == calls'[s].out
          IN  c.op = "update" /\ Runs(s, 1, "put") =>
                \/ /\ out = Resolved(Status(updateSuccess))
                   /\ Cardinality({j \in 1..Len(db'[st]) : db'[st][j].id = c.val.id}) = 1
                   /\ c.val \in ToSet(db'[st])
                   /\ Others(db'[st], c.val.id) = Others(db[st], c.val.id)
                   /\ \A o \in Stores \ {st} : db'[o] = db[o]
                \/ /\ out = Rejected(Status(updateFail))
                   /\ db' = db]_vars
\* an update that resolved: its record is in the store, among others
C14_Witness ==
    LET c == calls[Caller]
    IN  /\ c.op = "update" /\ c.out = Resolved(Status(updateSuccess))
        /\ HasOwn(c.val, "name")
        /\ Len(db[c.store]) = MaxKey
        /\ c.val \in ToSet(db[c.store])

\* tasks i and j of call c are set calls for the same key
SameKeyTasks(c, i, j) ==
    /\ i \in 1..Len(c.tasks) /\ j \in 1..Len(c.tasks) /\ i # j
    /\ HasOwn(c.tasks[i].val, "id") /\ HasOwn(c.tasks[j].val, "id")
    /\ c.tasks[i].val.id = c.tasks[j].val.id

\* C15: the existence check of set (getAllKeys) and its write are separate
\* steps: when set calls for the same key run concurrently (a setBatch list
\* with the key twice) and one of them inserts the key, every other one has
\* seen the key absent too and issued add: it is not routed to update (no
\* 106 / 107) and ends in setFail (104), or in the TypeError of a failed check.
C15_CheckThenWrite ==
    \A s \in Slots :
        LET c == calls[s]
        IN  \A i \in 1..MaxBatch, j \in 1..MaxBatch :
                /\ SameKeyTasks(c, i, j)
                /\ c.tasks[i].out = Resolved(Status(setSuccess))
                /\ c.tasks[j].pc = "done"
                => c.tasks[j].out \in {Rejected(Status(setFail)), Rejected(TypeError)}
\* both set calls are about to add the same key
C15_WitnessBothAdd ==
    LET c == calls[Caller]
    IN  /\ c.op = "setBatch" /\ SameKeyTasks(c, 1, 2)
        /\ c.tasks[1].pc = "add" /\ c.tasks[2].pc = "add"
C15_Witness ==
    LET c == calls[Caller]
    IN  /\ c.op = "setBatch" /\ SameKeyTasks(c, 1, 2)
        /\ c.tasks[1].out = Resolved(Status(setSuccess))
        /\ c.tasks[2].out = Rejected(Status(setFail))
        /\ c.out = Rejected(Status(setFail))
        /\ c.tasks[1].val \in ToSet(db[c.store])

\* C17: deleteByCursor(store, attrName, attrValue) does not stop at the first
\* match: when the cursor is exhausted, every record that had own property
\* attrName equal to attrValue has been deleted, every record that did not
\* match is still present and unchanged, and no record has been added.
C17_DeletesEveryMatch ==
    \A s \in Slots :
        LET c == calls[s]
            now == db[c.store]
        IN  c.op = "deleteByCursor" /\ Exhausted(c) =>
                /\ \A i \in 1..Len(Found(c)) :
                       IF Wanted(c, Found(c)[i])
                       THEN Found(c)[i].id \notin KeySet(now)
                       ELSE Found(c)[i] \in ToSet(now)
                /\ KeySet(now) \subseteq KeySet(Found(c))
C17_Witness ==
    LET c == calls[Caller]
    IN  /\ c.op = "deleteByCursor" /\ Exhausted(c)
        /\ Cardinality(WantedIdx(c)) >= 2
        /\ \A i \in WantedIdx(c) : Found(c)[i].id \notin KeySet(db[c.store])
\* a match deleted beside a record that did not match
C17_WitnessKept ==
    LET c == calls[Caller]
    IN  /\ c.op = "deleteByCursor" /\ Exhausted(c)
        /\ WantedIdx(c) # {} /\ db[c.store] # <<>>
        /\ \A i \in WantedIdx(c) : Found(c)[i].id \notin KeySet(db[c.store])

\* C12: when the host has no compatible storage engine (window.indexedDB and
\* window.webkitIndexedDB both absent), open() ends at once with
\* compatibleFail (102), and no native open request is issued.
C12_Unsupported ==
    ~conn.engine /\ conn.pc # "new" =>
        /\ Code(conn.out) = compatibleFail
        /\ conn.pc = "done" /\ conn.fired = "none"

\* C18: when open() creates the database and resolves, every store of the
\* store list exists with its declared key field, createIndex has been invoked
\* exactly once for each store that declares an index list and not at all for
\* the others, and open() resolved with the instance itself; whenever the
\* native open request fires error, open() rejects with openFail (101).
C18_OpenCreates ==
    /\ conn.fresh /\ conn.pc = "done" /\ conn.out.st = "resolved" =>
        /\ \A st \in Stores : conn.list[st] # NoDecl => conn.have[st] = conn.list[st].key
        /\ \A st \in Stores :
               conn.installs[st] = IF conn.list[st] # NoDecl /\ conn.list[st].indexed THEN 1 ELSE 0
        /\ conn.out = Resolved(This)
    /\ conn.fired = "error" => conn.out = Rejected(Status(openFail))
C18_Witness ==
    /\ conn.fresh /\ conn.out = Resolved(This)
    /\ conn.list = [st \in Stores |-> IF st = "task" THEN [key |-> "uid", indexed |-> TRUE]
                                     ELSE [key |-> "id", indexed |-> FALSE]]
    /\ conn.have = [st \in Stores |-> IF st = "task" THEN "uid" ELSE "id"]
    /\ conn.installs = [st \in Stores |-> IF st = "task" THEN 1 ELSE 0]
\* the open request of a database being created errors after the upgrade
C18_WitnessError ==
    /\ conn.fresh /\ conn.fired = "error" /\ conn.target = "connection"
    /\ conn.out = Rejected(Status(openFail))

\* C19: if the host fires success or error on every native request (and every
\* cursor comes to its end), the promise returned by every public operation,
\* open included, eventually settles (or the call has thrown and returned no
\* promise); and once a promise is settled its outcome never changes for as
\* long as the call lasts: later resolve calls are ignored.
C19_Settles ==
    /\ \A s \in Slots : (calls[s].op # "none") ~> Settled(calls[s].out)
    /\ (conn.pc # "new") ~> Settled(conn.out)
    /\ [][/\ \A s \in Slots :
               Settled(calls[s].out) /\ calls'[s].op # "none" => calls'[s].out = calls[s].out
          /\ Settled(conn.out) => conn'.out = conn.out]_vars
\* on a database that open() created, a cursor write has matched, settled with
\* the outcome of that match, and has then called resolve(noFound) at the end
C19_Witness ==
    LET c == calls[Caller]
    IN  /\ conn.fresh /\ Serving(conn)
        /\ Writes(c) /\ c.pc = "done" /\ ~c.failed
        /\ c.cur.first \notin {NoMatch, Pending}
        /\ c.out = c.cur.first
\* a setBatch of two records has settled on a database that open() created
C19_WitnessBatch ==
    LET c == calls[Caller]
    IN  /\ conn.fresh /\ Serving(conn)
        /\ c.op = "setBatch" /\ Len(c.list) = 2 /\ Settled(c.out)

\* C16: in every reachable state, whatever the interleaving of concurrent
\* set, setBatch, update, remove, removeAll, updateByCursor and deleteByCursor
\* calls, each store holds at most one record per primary-key value.
C16_UniqueKeys ==
    \A st \in Stores :
        \A i, j \in 1..Len(db[st]) : i # j => db[st][i].id # db[st][j].id
\* two concurrent sets of the same new key both found it free and both issued
\* add: one stored the record, the other failed
C16_Witness ==
    LET p == calls["p"]
        q == calls["q"]
    IN  /\ ~awaiting
        /\ p.op = "set" /\ q.op = "set" /\ p.store = q.store
        /\ HasOwn(p.val, "id") /\ HasOwn(q.val, "id")
        /\ p.val.id = q.val.id
        /\ ResolvedWith(p.out, setSuccess) /\ RejectedWith(q.out, setFail)
        /\ Len(db[p.store]) = 1
\* a set that found the key taken and put the record while a cursor update of
\* another caller wrote the same record
C16_WitnessPut ==
    LET p == calls["p"]
        q == calls["q"]
    IN  /\ ~awaiting
        /\ p.op = "set" /\ q.op = "updateByCursor" /\ p.store = q.store
        /\ ResolvedWith(p.out, updateSuccess) /\ ResolvedWith(q.out, cursorUpdateSuccess)
        /\ HasOwn(p.val, "id") /\ HasOwn(q.val, "id")
        /\ p.val.id = q.val.id

\* C20: the read operations (get, getAll, getAllKeys, the five index reads,
\* getAllByCursor) leave the records of every store unchanged, and a mutating
\* operation on a store (set, setBatch, update, remove, removeAll,
\* updateByCursor, deleteByCursor) leaves the records of every other store
\* unchanged: a step changes the records of a store only while a mutating
\* call on that very store is in flight.
Mutating == {"set", "setBatch", "update", "remove", "removeAll", "updateByCursor", "deleteByCursor"}
Reading ==
    {"get", "getAll", "getAllKeys", "getByIndex", "getCountByIndex", "getAllByIndex",
     "getAllKeysByIndex", "getKeyByIndex", "getAllByCursor"}
C20_Frame ==
    [][/\ \A st \in Stores :
             db'[st] # db[st] =>
                 /\ calls[Caller].op \in Mutating
                 /\ calls[Caller].store = st
       /\ calls[Caller].op \in Reading => db' = db
       /\ calls[Caller].op = "none" => db' = db]_vars
\* removeAll has emptied one store and the other still holds its two records
C20_Witness ==
    LET c == calls[Caller]
    IN  /\ c.op = "removeAll" /\ c.store = "tag"
        /\ ResolvedWith(c.out, removeAllSuccess)
        /\ lastWrite["tag"] = [k |-> "clear", n |-> 2]
        /\ db["tag"] = <<>> /\ Len(db["task"]) = 2
\* a cursor read whose request errored after its first record: the
\* transaction is aborted and both stores hold what they held
C20_WitnessRead ==
    LET c == calls[Caller]
    IN  /\ c.op = "getAllByCursor" /\ c.store = "task"
        /\ c.failed /\ c.cur.pos = 1 /\ c.out = Resolved(Undefined)
        /\ Len(db["task"]) = 2 /\ Len(db["tag"]) = 2

=============================================================================
